---------------------------- MODULE Spec2Model ----------------------------
(***************************************************************************)
(* The constructors of VpcPluralsightStack (four revisions) and of         *)
(* TransitVpcConstruct, as state machines.  A constructor is a straight    *)
(* line of statements; every statement either constructs a child of the    *)
(* scope (new ec2.X(this, id, props)) or calls a method of a child made    *)
(* earlier (applyRemovalPolicy, addIngressRule, addToPolicy, addFlowLog).  *)
(* The state is the construct tree built so far.                           *)
(***************************************************************************)
EXTENDS Naturals, Integers, Sequences, FiniteSets, TLC

VARIABLES version, props, pc, children, removal

vars == <<version, props, pc, children, removal>>

(***************************************************************************)
(* Values a property of a construct can be given by reference.             *)
(* x.attrFoo of a construct is a deploy-time token, a literal property     *)
(* read back (sshKeyPair.keyName) is the literal, and a property that was  *)
(* never set reads as undefined.                                           *)
(***************************************************************************)
Undefined == <<>>

Token(id, attr) == <<id, attr>>

Lit(s) == <<s>>

Ref(id, attr) == [ref |-> id, attr |-> attr]

Absent == [ref |-> "", attr |-> ""]

Cidr(a, b, c, d, len) == [family |-> "ipv4", octets |-> <<a, b, c, d>>, len |-> len]

(* ec2.Peer *)
PeerIpv4(cidr) == cidr

PeerAnyIpv4 == Cidr(0, 0, 0, 0, 0)

PeerAnyIpv6 == [family |-> "ipv6", octets |-> <<0, 0, 0, 0>>, len |-> 0]

(* ec2.Port *)
PortTcp(n) == [protocol |-> "tcp", fromPort |-> n, toPort |-> n]

PortIcmpPing == [protocol |-> "icmp", fromPort |-> 8, toPort |-> -1]

PortAllTraffic == [protocol |-> "-1", fromPort |-> -1, toPort |-> -1]

NoTags == <<>>

NameTag(v) == <<[key |-> "Name", value |-> v]>>

(* The attributes a construct of each type generates (tokens). *)
Attributes(type) ==
    CASE type = "Vpc" -> {"vpcId"}
      [] type = "Subnet" -> {"subnetId"}
      [] type = "CfnRouteTable" -> {"attrRouteTableId", "ref"}
      [] type = "CfnInternetGateway" -> {"attrInternetGatewayId", "ref"}
      [] type = "Instance" -> {"instanceId", "instancePublicIp"}
      [] type = "CfnEIP" -> {"attrAllocationId", "attrPublicIp", "ref"}
      [] type = "CfnVPCPeeringConnection" -> {"attrId", "ref"}
      [] type = "VpnGateway" -> {"gatewayId"}
      [] OTHER -> {"ref"}

(* The value of the expression r, evaluated in the scope built so far. *)
Resolve(r, ch, pr) ==
    IF r.ref = "" THEN Undefined
    ELSE IF r.ref = "props" THEN Lit(pr[r.attr])
    ELSE IF r.ref = "props.sharedVpc" THEN Token(pr.sharedVpc, r.attr)
    ELSE IF r.ref \notin DOMAIN ch THEN Undefined
    ELSE IF r.attr \in DOMAIN ch[r.ref].props THEN Lit(ch[r.ref].props[r.attr])
    ELSE IF r.attr \in Attributes(ch[r.ref].type) THEN Token(r.ref, r.attr)
    ELSE Undefined

(* A reference to a construct object (vpc: publicVpc). *)
Object(o, pr) == IF o = "props.sharedVpc" THEN pr.sharedVpc ELSE o

New(kind, id, p, refs, objs) ==
    [kind |-> kind, id |-> id, props |-> p, refs |-> refs, objs |-> objs]

NoRefs == [none |-> Absent]

NoObjs == [none |-> ""]

NoProps == [none |-> ""]

(***************************************************************************)
(* The statements, named as the constants they initialise.                 *)
(***************************************************************************)

publicVpc ==
    New("Vpc", "PublicVpc",
        [vpcName |-> "web-vpc", cidr |-> Cidr(10, 1, 0, 0, 16), subnetConfiguration |-> <<>>],
        NoRefs, NoObjs)

publicSubnet ==
    New("Subnet", "PublicSubnet",
        [availabilityZone |-> "eu-west-1a", cidrBlock |-> Cidr(10, 1, 254, 0, 24)],
        [vpcId |-> Ref("PublicVpc", "vpcId")], NoObjs)

publicRouteTable ==
    New("CfnRouteTable", "PublicRouteTable", [tags |-> NoTags],
        [vpcId |-> Ref("PublicVpc", "vpcId")], NoObjs)

publicSubnetRouteTableAssociation_0 ==
    New("CfnSubnetRouteTableAssociation", "PublicRouteTableSubnetAssociation", NoProps,
        [subnetId |-> Ref("PublicSubnet", "subnetId"),
         routeTableId |-> Ref("PublicRouteTable", "attrRouteTableId")], NoObjs)

publicSubnetRouteTableAssociation ==
    New("CfnSubnetRouteTableAssociation", "PublicRouteTableSubnetAssociation1", NoProps,
        [subnetId |-> Ref("PublicSubnet", "subnetId"),
         routeTableId |-> Ref("PublicRouteTable", "attrRouteTableId")], NoObjs)

publicInternetGateway ==
    New("CfnInternetGateway", "PublicInternetGateway", [tags |-> NoTags], NoRefs, NoObjs)

publicVpcIgwAttachment ==
    New("CfnVPCGatewayAttachment", "PublicVpcIgwAttachment", NoProps,
        [vpcId |-> Ref("PublicVpc", "vpcId"),
         internetGatewayId |-> Ref("PublicInternetGateway", "attrInternetGatewayId"),
         vpnGatewayId |-> Absent], NoObjs)

(* The default route written with the VPC's own block as destination. *)
route_mutant ==
    New("CfnRoute", "PublicInternetAccessRoute",
        [destinationCidrBlock |-> Cidr(10, 1, 0, 0, 16)],
        [routeTableId |-> Ref("PublicRouteTable", "attrRouteTableId"),
         gatewayId |-> Ref("PublicInternetGateway", "attrInternetGatewayId"),
         vpcPeeringConnectionId |-> Absent, instanceId |-> Absent], NoObjs)

route ==
    New("CfnRoute", "PublicInternetAccessRoute",
        [destinationCidrBlock |-> Cidr(0, 0, 0, 0, 0)],
        [routeTableId |-> Ref("PublicRouteTable", "attrRouteTableId"),
         gatewayId |-> Ref("PublicInternetGateway", "attrInternetGatewayId"),
         vpcPeeringConnectionId |-> Absent, instanceId |-> Absent], NoObjs)

publicSecurityGroup ==
    New("SecurityGroup", "PublicSecurityGroup",
        [securityGroupName |-> "web-pub-sg", description |-> "Public VPC security group",
         allowAllOutbound |-> TRUE],
        NoRefs, [vpc |-> "PublicVpc"])

IngressRule(sg, peer, port, description) ==
    New("addIngressRule", sg, [peer |-> peer, port |-> port, description |-> description],
        NoRefs, NoObjs)

(* SSH opened to any IPv4 address. *)
publicSecurityGroup_addIngressRule_1_mutant ==
    IngressRule("PublicSecurityGroup", PeerAnyIpv4, PortTcp(22),
                "SSH access from IP range 24.96.0.0/16")

publicSecurityGroup_addIngressRule_1 ==
    IngressRule("PublicSecurityGroup", PeerIpv4(Cidr(24, 96, 0, 0, 16)), PortTcp(22),
                "SSH access from IP range 24.96.0.0/16")

publicSecurityGroup_addIngressRule_2 ==
    IngressRule("PublicSecurityGroup", PeerAnyIpv4, PortTcp(80),
                "Allow access into this public VPC from any ipv4 address")

publicSecurityGroup_addIngressRule_3 ==
    IngressRule("PublicSecurityGroup", PeerAnyIpv6, PortTcp(80),
                "Allow access into this public VPC from any ipv6 address")

sshKeyPair ==
    New("CfnKeyPair", "ssh-keypair", [keyName |-> "public-ssh-key-pair"], NoRefs, NoObjs)

publicEc2Instance ==
    New("Instance", "public-ec2-instance",
        [privateIpAddress |-> <<10, 1, 254, 10>>, instanceType |-> "t2.micro",
         machineImage |-> "latestAmazonLinux", instanceName |-> "public-ec2-instance",
         subnets |-> <<"PublicSubnet">>],
        [keyName |-> Ref("ssh-keypair", "keyName")],
        [vpc |-> "PublicVpc", securityGroup |-> "PublicSecurityGroup"])

publicIpv4Address ==
    New("CfnEIP", "public-elastic-ip", NoProps, [instanceId |-> Absent], NoObjs)

publicElasticIpVpcAssociation ==
    New("CfnEIPAssociation", "public-elastic-ip-network-interface-assc", NoProps,
        [instanceId |-> Ref("public-ec2-instance", "instanceId"),
         allocationId |-> Ref("public-elastic-ip", "attrAllocationId")], NoObjs)

sharedVpc ==
    New("Vpc", "SharedVpc",
        [vpcName |-> "shared-vpc", cidr |-> Cidr(10, 2, 0, 0, 16), subnetConfiguration |-> <<>>],
        NoRefs, NoObjs)

databaseSubnet ==
    New("Subnet", "DatabaseSubnet",
        [availabilityZone |-> "eu-west-1a", cidrBlock |-> Cidr(10, 2, 2, 0, 24)],
        [vpcId |-> Ref("SharedVpc", "vpcId")], NoObjs)

sharedVpcRouteTable ==
    New("CfnRouteTable", "SharedRouteTable", [tags |-> NoTags],
        [vpcId |-> Ref("SharedVpc", "vpcId")], NoObjs)

sharedSubnetRouteTableAssociation ==
    New("CfnSubnetRouteTableAssociation", "SharedRouteTableSubnetAssociation", NoProps,
        [subnetId |-> Ref("DatabaseSubnet", "subnetId"),
         routeTableId |-> Ref("SharedRouteTable", "attrRouteTableId")], NoObjs)

databaseSecurityGroup ==
    New("SecurityGroup", "DatabaseSecurityGroup",
        [securityGroupName |-> "database-sg", description |-> "Database security group",
         allowAllOutbound |-> TRUE],
        NoRefs, [vpc |-> "SharedVpc"])

databaseSecurityGroup_addIngressRule_1 ==
    IngressRule("DatabaseSecurityGroup", PeerIpv4(Cidr(192, 168, 0, 0, 16)), PortTcp(22),
                "SSH access from IP range 192.168.0.0/16")

databaseSecurityGroup_addIngressRule_2 ==
    IngressRule("DatabaseSecurityGroup", PeerIpv4(Cidr(10, 2, 0, 0, 16)), PortTcp(22),
                "SSH access from IP range 10.2.0.0/16")

(* MySQL opened to the whole of web-vpc instead of the public subnet. *)
databaseSecurityGroup_addIngressRule_3_mutant ==
    IngressRule("DatabaseSecurityGroup", PeerIpv4(Cidr(10, 1, 0, 0, 16)), PortTcp(3306),
                "MySQL access from public subnet into database instance")

databaseSecurityGroup_addIngressRule_3 ==
    IngressRule("DatabaseSecurityGroup", PeerIpv4(Cidr(10, 1, 254, 0, 24)), PortTcp(3306),
                "MySQL access from public subnet into database instance")

databaseSecurityGroup_addIngressRule_4 ==
    IngressRule("DatabaseSecurityGroup", PeerAnyIpv4, PortIcmpPing,
                "Allow ICMP ping from any ipv4")

databaseEc2Instance ==
    New("Instance", "database-ec2-instance",
        [privateIpAddress |-> <<10, 2, 2, 41>>, instanceType |-> "t2.micro",
         machineImage |-> "latestAmazonLinux", instanceName |-> "database-ec2-instance",
         subnets |-> <<"DatabaseSubnet">>],
        [keyName |-> Ref("ssh-keypair", "keyName")],
        [vpc |-> "SharedVpc", securityGroup |-> "DatabaseSecurityGroup"])

vpcPeeringConnection ==
    New("CfnVPCPeeringConnection", "PCX", [tags |-> NameTag("web-shared-pcx")],
        [vpcId |-> Ref("PublicVpc", "vpcId"), peerVpcId |-> Ref("SharedVpc", "vpcId")],
        NoObjs)

publicRouteTablePeeringRoute ==
    New("CfnRoute", "public-route-table-peering-route",
        [destinationCidrBlock |-> Cidr(10, 2, 2, 0, 24)],
        [routeTableId |-> Ref("PublicRouteTable", "attrRouteTableId"),
         gatewayId |-> Absent,
         vpcPeeringConnectionId |-> Ref("PCX", "peerOwnerId"), instanceId |-> Absent], NoObjs)

sharedRouteTablePeeringRoute ==
    New("CfnRoute", "shared-route-table-peering-route",
        [destinationCidrBlock |-> Cidr(10, 1, 254, 0, 24)],
        [routeTableId |-> Ref("SharedRouteTable", "attrRouteTableId"),
         gatewayId |-> Absent,
         vpcPeeringConnectionId |-> Ref("PCX", "peerOwnerId"), instanceId |-> Absent], NoObjs)

sharedInternetGateway ==
    New("CfnInternetGateway", "shared-igw", [tags |-> NameTag("shared-igw")], NoRefs, NoObjs)

sharedVpcIgwAttachment ==
    New("CfnVPCGatewayAttachment", "SharedVpcIgwAttachment", NoProps,
        [vpcId |-> Ref("SharedVpc", "vpcId"),
         internetGatewayId |-> Ref("shared-igw", "attrInternetGatewayId"),
         vpnGatewayId |-> Absent], NoObjs)

(* The NAT subnet placed in another availability zone. *)
natSubnet_mutant_az ==
    New("Subnet", "shared-nat-subnet",
        [availabilityZone |-> "eu-west-1b", cidrBlock |-> Cidr(10, 2, 254, 0, 24)],
        [vpcId |-> Ref("SharedVpc", "vpcId")], NoObjs)

natSubnet ==
    New("Subnet", "shared-nat-subnet",
        [availabilityZone |-> "eu-west-1a", cidrBlock |-> Cidr(10, 2, 254, 0, 24)],
        [vpcId |-> Ref("SharedVpc", "vpcId")], NoObjs)

natRouteTable ==
    New("CfnRouteTable", "nat-pub-route-table", [tags |-> NameTag("nat-pub")],
        [vpcId |-> Ref("SharedVpc", "vpcId")], NoObjs)

defaultNatRoute ==
    New("CfnRoute", "default-nat-route",
        [destinationCidrBlock |-> Cidr(0, 0, 0, 0, 0)],
        [routeTableId |-> Ref("nat-pub-route-table", "attrRouteTableId"),
         gatewayId |-> Ref("shared-igw", "attrInternetGatewayId"),
         vpcPeeringConnectionId |-> Absent, instanceId |-> Absent], NoObjs)

natSubnetRouteTableAssociation ==
    New("CfnSubnetRouteTableAssociation", "NATRouteTableSubnetAssociation", NoProps,
        [subnetId |-> Ref("shared-nat-subnet", "subnetId"),
         routeTableId |-> Ref("nat-pub-route-table", "attrRouteTableId")], NoObjs)

natSecurityGroup ==
    New("SecurityGroup", "nat-security-group",
        [securityGroupName |-> "NAT instance", description |-> "Security group for NAT instance",
         allowAllOutbound |-> TRUE],
        NoRefs, [vpc |-> "SharedVpc"])

natSecurityGroup_addIngressRule_1 ==
    IngressRule("nat-security-group", PeerIpv4(Cidr(24, 96, 0, 0, 16)), PortTcp(22),
                "Allow SSH access from ip range 24.96.0.0/16")

natSecurityGroup_addIngressRule_2 ==
    IngressRule("nat-security-group", PeerIpv4(Cidr(10, 0, 0, 0, 8)), PortAllTraffic,
                "Allow 10.0.0.0/8 to access all traffic")

natSecurityGroup_addIngressRule_3 ==
    IngressRule("nat-security-group", PeerIpv4(Cidr(192, 168, 0, 0, 16)), PortAllTraffic,
                "Allow 192.168.0.0/16 to access all traffic")

natEc2Instance ==
    New("Instance", "nat-ec2-instance",
        [privateIpAddress |-> <<10, 2, 254, 254>>, instanceType |-> "t2.micro",
         machineImage |-> "NatInstanceImage", instanceName |-> "nat-ec2-instance",
         subnets |-> <<"shared-nat-subnet">>],
        [keyName |-> Ref("ssh-keypair", "keyName")],
        [vpc |-> "SharedVpc", securityGroup |-> "nat-security-group"])

(* The NAT Elastic IP allocated to the public instance. *)
natEip_mutant ==
    New("CfnEIP", "nat-eip", NoProps,
        [instanceId |-> Ref("public-ec2-instance", "instanceId")], NoObjs)

natEip ==
    New("CfnEIP", "nat-eip", NoProps,
        [instanceId |-> Ref("nat-ec2-instance", "instanceId")], NoObjs)

(* The shared default route sent to the internet gateway instead of the NAT. *)
sharedDefaultRoute_mutant ==
    New("CfnRoute", "shared-default-route",
        [destinationCidrBlock |-> Cidr(0, 0, 0, 0, 0)],
        [routeTableId |-> Ref("SharedRouteTable", "attrRouteTableId"),
         gatewayId |-> Ref("shared-igw", "attrInternetGatewayId"),
         vpcPeeringConnectionId |-> Absent,
         instanceId |-> Absent], NoObjs)

sharedDefaultRoute ==
    New("CfnRoute", "shared-default-route",
        [destinationCidrBlock |-> Cidr(0, 0, 0, 0, 0)],
        [routeTableId |-> Ref("SharedRouteTable", "attrRouteTableId"),
         gatewayId |-> Absent, vpcPeeringConnectionId |-> Absent,
         instanceId |-> Ref("nat-ec2-instance", "instanceId")], NoObjs)

logsIamRole ==
    New("Role", "LogsIMARole",
        [roleName |-> "IAM-logs-role", assumedBy |-> "vpc-flow-logs.amazonaws.com"],
        NoRefs, NoObjs)

logsIamRole_addToPolicy ==
    New("addToPolicy", "LogsIMARole",
        [effect |-> "ALLOW", resources |-> <<"*">>, actions |-> <<"logs:*">>],
        NoRefs, NoObjs)

publicVpcAcceptFlowLogGroup ==
    New("LogGroup", "public-vpc-accept-log-group",
        [logGroupName |-> "PublicVPCAcceptLogGroup", retention |-> "ONE_DAY",
         removalPolicy |-> "DESTROY"],
        NoRefs, NoObjs)

publicVpc_addFlowLog_accept ==
    New("addFlowLog", "PublicVpc",
        [id |-> "public-vpc-accept-flow-log", trafficType |-> "ACCEPT"],
        NoRefs, [logGroup |-> "public-vpc-accept-log-group", role |-> "LogsIMARole"])

publicVpcRejectFlowLogGroup ==
    New("LogGroup", "public-vpc-reject-log-group",
        [logGroupName |-> "PublicVPCRejectLogGroup", retention |-> "ONE_DAY",
         removalPolicy |-> "DESTROY"],
        NoRefs, NoObjs)

publicVpc_addFlowLog_reject ==
    New("addFlowLog", "PublicVpc",
        [id |-> "public-vpc-reject-flow-log", trafficType |-> "REJECT"],
        NoRefs, [logGroup |-> "public-vpc-reject-log-group", role |-> "LogsIMARole"])

(* TransitVpcConstruct *)

(* The transit VPC given the block of shared-vpc. *)
transitVpc_mutant ==
    New("Vpc", "transit-vpc",
        [vpcName |-> "transit-vpc", cidr |-> Cidr(10, 2, 0, 0, 16), subnetConfiguration |-> <<>>],
        NoRefs, NoObjs)

transitVpc ==
    New("Vpc", "transit-vpc",
        [vpcName |-> "transit-vpc", cidr |-> Cidr(10, 3, 0, 0, 16), subnetConfiguration |-> <<>>],
        NoRefs, NoObjs)

(* The transit subnet with prefix length 8 for 24. *)
transitVpcSubnet_mutant ==
    New("Subnet", "transit-vpc-subnet",
        [availabilityZone |-> "eu-west-1a", cidrBlock |-> Cidr(10, 3, 0, 0, 8)],
        [vpcId |-> Ref("transit-vpc", "vpcId")], NoObjs)

transitVpcSubnet ==
    New("Subnet", "transit-vpc-subnet",
        [availabilityZone |-> "eu-west-1a", cidrBlock |-> Cidr(10, 3, 0, 0, 24)],
        [vpcId |-> Ref("transit-vpc", "vpcId")], NoObjs)

transitVpcInternetGateway ==
    New("CfnInternetGateway", "transit-vpc-internet-gateway", [tags |-> NameTag("transit-igw")],
        NoRefs, NoObjs)

transitVpcIgwAttachment ==
    New("CfnVPCGatewayAttachment", "transit-vpc-igw-attachment", NoProps,
        [vpcId |-> Ref("transit-vpc", "vpcId"),
         internetGatewayId |-> Ref("transit-vpc-internet-gateway", "attrInternetGatewayId"),
         vpnGatewayId |-> Absent], NoObjs)

transitVpcRouteTable ==
    New("CfnRouteTable", "transit-vpc-route-table", [tags |-> NameTag("transit")],
        [vpcId |-> Ref("transit-vpc", "vpcId")], NoObjs)

transitRouteTableDefaultRoute ==
    New("CfnRoute", "transit-route-table-default",
        [destinationCidrBlock |-> Cidr(0, 0, 0, 0, 0)],
        [routeTableId |-> Ref("transit-vpc-route-table", "attrRouteTableId"),
         gatewayId |-> Ref("transit-vpc-internet-gateway", "attrInternetGatewayId"),
         vpcPeeringConnectionId |-> Absent, instanceId |-> Absent], NoObjs)

transitSubnetRouteTableAssociation ==
    New("CfnSubnetRouteTableAssociation", "transit-subnet-route-table-assc", NoProps,
        [subnetId |-> Ref("transit-vpc-subnet", "subnetId"),
         routeTableId |-> Ref("transit-vpc-route-table", "attrRouteTableId")], NoObjs)

transitInstanceSecGroup ==
    New("SecurityGroup", "transit-instance-sec-group",
        [securityGroupName |-> "Transit VPC ec2 instance security group", description |-> "",
         allowAllOutbound |-> TRUE],
        NoRefs, [vpc |-> "transit-vpc"])

transitInstanceSecGroup_addIngressRule_1 ==
    IngressRule("transit-instance-sec-group", PeerIpv4(Cidr(24, 96, 0, 0, 16)), PortTcp(22),
                "SSH access from ipv4 range 24.96.0.0/16")

ciscoRouterInstance ==
    New("Instance", "cisco-router-instance",
        [privateIpAddress |-> <<10, 3, 0, 10>>, instanceType |-> "t2.medium",
         machineImage |-> "Cisco Cloud Services Router (CSR) 1000V - BYOL for Maximum Performance",
         instanceName |-> "transit-csr", subnets |-> <<"transit-vpc-subnet">>],
        [keyName |-> Ref("props", "sshKeyPairName")],
        [vpc |-> "transit-vpc", securityGroup |-> ""])

transitInstanceEip ==
    New("CfnEIP", "transit-instance-eip", NoProps,
        [instanceId |-> Ref("cisco-router-instance", "instanceId")], NoObjs)

transitVPG ==
    New("VpnGateway", "transit-vpc-gateway", [type |-> "ipsec.1"], NoRefs, NoObjs)

vpgVpcAttachment ==
    New("CfnVPCGatewayAttachment", "transit-vpc-vpg-attachment", NoProps,
        [vpcId |-> Ref("props.sharedVpc", "vpcId"),
         internetGatewayId |-> Absent,
         vpnGatewayId |-> Ref("transit-vpc-gateway", "gatewayId")], NoObjs)

transitSharedVpcVpnConnection ==
    New("VpnConnection", "transit-shared-vpc-vpn-conn", NoProps,
        [ip |-> Ref("cisco-router-instance", "instancePublicIp")],
        [vpc |-> "props.sharedVpc"])

transitRoutePropagation ==
    New("CfnVPNGatewayRoutePropagation", "transitRouteProp", [routeTableIds |-> <<"*">>],
        [vpnGatewayId |-> Ref("transit-vpc-gateway", "gatewayId")], NoObjs)

onPremCustomerGateway1 ==
    New("CfnCustomerGateway", "on-prem-customer-gateway-1",
        [tags |-> NameTag("chs-r1"), bgpAsn |-> 65000, type |-> "ipsec.1",
         ipAddress |-> "24.96.154.173"],
        NoRefs, NoObjs)

onPremCustomerGateway2 ==
    New("CfnCustomerGateway", "on-prem-customer-gateway-2",
        [tags |-> NameTag("atl-r1"), bgpAsn |-> 65001, type |-> "ipsec.1",
         ipAddress |-> "24.96.154.174"],
        NoRefs, NoObjs)

cloudHubVPG ==
    New("VpnGateway", "on-prem-vpg", [type |-> "ipsec.1"], NoRefs, NoObjs)

cloudHubVpGAttachment ==
    New("CfnVPCGatewayAttachment", "on-prem-vpc-transit-attachment", NoProps,
        [vpcId |-> Ref("transit-vpc", "vpcId"),
         internetGatewayId |-> Absent,
         vpnGatewayId |-> Ref("on-prem-vpg", "gatewayId")], NoObjs)

onPrem1VPNConnection ==
    New("VpnConnection", "on-prem-1-vpn-connection", NoProps,
        [ip |-> Ref("on-prem-customer-gateway-1", "ipAddress")],
        [vpc |-> "transit-vpc"])

onPrem2VPNConnection ==
    New("VpnConnection", "on-prem-2-vpn-connection", NoProps,
        [ip |-> Ref("on-prem-customer-gateway-2", "ipAddress")],
        [vpc |-> "transit-vpc"])

(***************************************************************************)
(* The constructors: the statements in source order.  D(s) is "const x =   *)
(* new ...; x.applyRemovalPolicy(RemovalPolicy.DESTROY);".                 *)
(***************************************************************************)
ApplyRemovalPolicy(id) ==
    New("applyRemovalPolicy", id, [policy |-> "DESTROY"], NoRefs, NoObjs)

D(s) == <<s, ApplyRemovalPolicy(s.id)>>

PublicNetwork(assoc) ==
    D(publicVpc) \o D(publicSubnet) \o D(publicRouteTable) \o D(assoc)
    \o D(publicInternetGateway) \o D(publicVpcIgwAttachment) \o D(route)

PublicInstance ==
    D(publicSecurityGroup)
    \o <<publicSecurityGroup_addIngressRule_1, publicSecurityGroup_addIngressRule_2,
         publicSecurityGroup_addIngressRule_3>>
    \o D(sshKeyPair) \o D(publicEc2Instance) \o D(publicIpv4Address)
    \o D(publicElasticIpVpcAssociation)

SharedDatabase ==
    D(sharedVpc) \o D(databaseSubnet) \o D(sharedVpcRouteTable)
    \o D(sharedSubnetRouteTableAssociation) \o D(databaseSecurityGroup)
    \o <<databaseSecurityGroup_addIngressRule_1, databaseSecurityGroup_addIngressRule_2,
         databaseSecurityGroup_addIngressRule_3, databaseSecurityGroup_addIngressRule_4>>
    \o D(databaseEc2Instance)

PeeringNatLogs ==
    D(vpcPeeringConnection) \o D(publicRouteTablePeeringRoute)
    \o D(sharedRouteTablePeeringRoute) \o D(sharedInternetGateway)
    \o D(sharedVpcIgwAttachment) \o D(natSubnet) \o D(natRouteTable) \o D(defaultNatRoute)
    \o D(natSubnetRouteTableAssociation) \o D(natSecurityGroup)
    \o <<natSecurityGroup_addIngressRule_1, natSecurityGroup_addIngressRule_2,
         natSecurityGroup_addIngressRule_3>>
    \o D(natEc2Instance) \o D(natEip) \o D(sharedDefaultRoute)
    \o <<logsIamRole, logsIamRole_addToPolicy, publicVpcAcceptFlowLogGroup,
         publicVpc_addFlowLog_accept, publicVpcRejectFlowLogGroup,
         publicVpc_addFlowLog_reject>>

VpcPluralsightStack_part_002 == PublicNetwork(publicSubnetRouteTableAssociation_0)

VpcPluralsightStack_part_001 ==
    PublicNetwork(publicSubnetRouteTableAssociation) \o PublicInstance

VpcPluralsightStack ==
    PublicNetwork(publicSubnetRouteTableAssociation) \o PublicInstance \o SharedDatabase

VpcPluralsightStack_part_003 ==
    PublicNetwork(publicSubnetRouteTableAssociation) \o PublicInstance \o SharedDatabase
    \o PeeringNatLogs

TransitVpcConstruct ==
    D(transitVpc) \o D(transitVpcSubnet) \o D(transitVpcInternetGateway)
    \o D(transitVpcIgwAttachment) \o D(transitVpcRouteTable)
    \o D(transitRouteTableDefaultRoute) \o D(transitSubnetRouteTableAssociation)
    \o D(transitInstanceSecGroup) \o <<transitInstanceSecGroup_addIngressRule_1>>
    \o D(ciscoRouterInstance) \o D(transitInstanceEip) \o D(transitVPG)
    \o D(vpgVpcAttachment) \o D(transitSharedVpcVpnConnection)
    \o D(transitRoutePropagation) \o D(onPremCustomerGateway1)
    \o D(onPremCustomerGateway2) \o D(cloudHubVPG) \o D(cloudHubVpGAttachment)
    \o D(onPrem1VPNConnection) \o D(onPrem2VPNConnection)

StackVersions == {"part_002", "part_001", "lib", "part_003"}

Versions == StackVersions \cup {"transit"}

Program(v) ==
    CASE v = "part_002" -> VpcPluralsightStack_part_002
      [] v = "part_001" -> VpcPluralsightStack_part_001
      [] v = "lib" -> VpcPluralsightStack
      [] v = "part_003" -> VpcPluralsightStack_part_003
      [] v = "transit" -> TransitVpcConstruct

(* The props a constructor can be handed.  bin/vpc-pluralsight.ts passes   *)
(* the stack none; TransitVpcConstructProps needs a key pair name and an   *)
(* IVpc, and the stacks declare one key pair and two VPCs.                 *)
StackProps == [sshKeyPairName |-> "", sharedVpc |-> ""]

TransitVpcConstructProps ==
    {[sshKeyPairName |-> sshKeyPair.props.keyName, sharedVpc |-> v] :
        v \in {publicVpc.id, sharedVpc.id}}

(***************************************************************************)
(* The state machine.                                                      *)
(***************************************************************************)
Init ==
    /\ version \in Versions
    /\ props \in (IF version = "transit" THEN TransitVpcConstructProps ELSE {StackProps})
    /\ pc = 1
    /\ children = <<>>
    /\ removal = {}

Done == pc > Len(Program(version))

Stmt == Program(version)[pc]

(* The construct a "new X(this, id, props)" adds to the scope. *)
Constructed(s) ==
    [type |-> s.kind,
     props |-> s.props,
     links |-> [f \in DOMAIN s.refs |-> Resolve(s.refs[f], children, props)],
     objs |-> [f \in DOMAIN s.objs |-> Object(s.objs[f], props)],
     ingress |-> <<>>,
     policy |-> <<>>,
     flowLogs |-> {}]


(* new X(this, id, props): the construct joins the scope under its id. *)
Add(s) == children @@ (s.id :> Constructed(s))

NewVpc ==
    /\ ~Done
    /\ Stmt.kind = "Vpc"
    /\ children' = Add(Stmt)
    /\ pc' = pc + 1
    /\ UNCHANGED <<version, props, removal>>

NewSubnet ==
    /\ ~Done
    /\ Stmt.kind = "Subnet"
    /\ children' = Add(Stmt)
    /\ pc' = pc + 1
    /\ UNCHANGED <<version, props, removal>>

NewCfnRouteTable ==
    /\ ~Done
    /\ Stmt.kind = "CfnRouteTable"
    /\ children' = Add(Stmt)
    /\ pc' = pc + 1
    /\ UNCHANGED <<version, props, removal>>

NewCfnSubnetRouteTableAssociation ==
    /\ ~Done
    /\ Stmt.kind = "CfnSubnetRouteTableAssociation"
    /\ children' = Add(Stmt)
    /\ pc' = pc + 1
    /\ UNCHANGED <<version, props, removal>>

NewCfnInternetGateway ==
    /\ ~Done
    /\ Stmt.kind = "CfnInternetGateway"
    /\ children' = Add(Stmt)
    /\ pc' = pc + 1
    /\ UNCHANGED <<version, props, removal>>

NewCfnVPCGatewayAttachment ==
    /\ ~Done
    /\ Stmt.kind = "CfnVPCGatewayAttachment"
    /\ children' = Add(Stmt)
    /\ pc' = pc + 1
    /\ UNCHANGED <<version, props, removal>>

NewCfnRoute ==
    /\ ~Done
    /\ Stmt.kind = "CfnRoute"
    /\ children' = Add(Stmt)
    /\ pc' = pc + 1
    /\ UNCHANGED <<version, props, removal>>

NewSecurityGroup ==
    /\ ~Done
    /\ Stmt.kind = "SecurityGroup"
    /\ children' = Add(Stmt)
    /\ pc' = pc + 1
    /\ UNCHANGED <<version, props, removal>>

NewCfnKeyPair ==
    /\ ~Done
    /\ Stmt.kind = "CfnKeyPair"
    /\ children' = Add(Stmt)
    /\ pc' = pc + 1
    /\ UNCHANGED <<version, props, removal>>

NewInstance ==
    /\ ~Done
    /\ Stmt.kind = "Instance"
    /\ children' = Add(Stmt)
    /\ pc' = pc + 1
    /\ UNCHANGED <<version, props, removal>>

NewCfnEIP ==
    /\ ~Done
    /\ Stmt.kind = "CfnEIP"
    /\ children' = Add(Stmt)
    /\ pc' = pc + 1
    /\ UNCHANGED <<version, props, removal>>

NewCfnEIPAssociation ==
    /\ ~Done
    /\ Stmt.kind = "CfnEIPAssociation"
    /\ children' = Add(Stmt)
    /\ pc' = pc + 1
    /\ UNCHANGED <<version, props, removal>>

NewCfnVPCPeeringConnection ==
    /\ ~Done
    /\ Stmt.kind = "CfnVPCPeeringConnection"
    /\ children' = Add(Stmt)
    /\ pc' = pc + 1
    /\ UNCHANGED <<version, props, removal>>

NewRole ==
    /\ ~Done
    /\ Stmt.kind = "Role"
    /\ children' = Add(Stmt)
    /\ pc' = pc + 1
    /\ UNCHANGED <<version, props, removal>>

NewLogGroup ==
    /\ ~Done
    /\ Stmt.kind = "LogGroup"
    /\ children' = Add(Stmt)
    /\ pc' = pc + 1
    /\ UNCHANGED <<version, props, removal>>

NewVpnGateway ==
    /\ ~Done
    /\ Stmt.kind = "VpnGateway"
    /\ children' = Add(Stmt)
    /\ pc' = pc + 1
    /\ UNCHANGED <<version, props, removal>>

NewVpnConnection ==
    /\ ~Done
    /\ Stmt.kind = "VpnConnection"
    /\ children' = Add(Stmt)
    /\ pc' = pc + 1
    /\ UNCHANGED <<version, props, removal>>

NewCfnVPNGatewayRoutePropagation ==
    /\ ~Done
    /\ Stmt.kind = "CfnVPNGatewayRoutePropagation"
    /\ children' = Add(Stmt)
    /\ pc' = pc + 1
    /\ UNCHANGED <<version, props, removal>>

NewCfnCustomerGateway ==
    /\ ~Done
    /\ Stmt.kind = "CfnCustomerGateway"
    /\ children' = Add(Stmt)
    /\ pc' = pc + 1
    /\ UNCHANGED <<version, props, removal>>

(* x.applyRemovalPolicy(RemovalPolicy.DESTROY) *)
applyRemovalPolicy ==
    /\ ~Done
    /\ Stmt.kind = "applyRemovalPolicy"
    /\ removal' = removal \cup {<<Stmt.id, Stmt.props.policy>>}
    /\ pc' = pc + 1
    /\ UNCHANGED <<version, props, children>>

(* sg.addIngressRule(peer, port, description): a rule the group already    *)
(* has is not added again.                                                 *)
addIngressRule ==
    /\ ~Done
    /\ Stmt.kind = "addIngressRule"
    /\ LET sg == children[Stmt.id]
           rule == [peer |-> Stmt.props.peer, port |-> Stmt.props.port,
                    description |-> Stmt.props.description]
       IN children' =
            [children EXCEPT ![Stmt.id].ingress =
                IF \E i \in 1..Len(sg.ingress) :
                     /\ sg.ingress[i].peer = rule.peer
                     /\ sg.ingress[i].port = rule.port
                THEN sg.ingress
                ELSE Append(sg.ingress, rule)]
    /\ pc' = pc + 1
    /\ UNCHANGED <<version, props, removal>>

(* role.addToPolicy(new PolicyStatement(...)) *)
addToPolicy ==
    /\ ~Done
    /\ Stmt.kind = "addToPolicy"
    /\ children' = [children EXCEPT ![Stmt.id].policy = Append(@, Stmt.props)]
    /\ pc' = pc + 1
    /\ UNCHANGED <<version, props, removal>>

(* vpc.addFlowLog(id, {destination, trafficType}) *)
addFlowLog ==
    /\ ~Done
    /\ Stmt.kind = "addFlowLog"
    /\ children' =
         [children EXCEPT ![Stmt.id].flowLogs =
            @ \cup {[id |-> Stmt.props.id, trafficType |-> Stmt.props.trafficType,
                     logGroup |-> Stmt.objs.logGroup, role |-> Stmt.objs.role]}]
    /\ pc' = pc + 1
    /\ UNCHANGED <<version, props, removal>>

Next ==
    \/ NewVpc
    \/ NewSubnet
    \/ NewCfnRouteTable
    \/ NewCfnSubnetRouteTableAssociation
    \/ NewCfnInternetGateway
    \/ NewCfnVPCGatewayAttachment
    \/ NewCfnRoute
    \/ NewSecurityGroup
    \/ NewCfnKeyPair
    \/ NewInstance
    \/ NewCfnEIP
    \/ NewCfnEIPAssociation
    \/ NewCfnVPCPeeringConnection
    \/ NewRole
    \/ NewLogGroup
    \/ NewVpnGateway
    \/ NewVpnConnection
    \/ NewCfnVPNGatewayRoutePropagation
    \/ NewCfnCustomerGateway
    \/ applyRemovalPolicy
    \/ addIngressRule
    \/ addToPolicy
    \/ addFlowLog

Spec == Init /\ [][Next]_vars

(***************************************************************************)
(* Vocabulary of the properties: the declared resources, what a token      *)
(* identifies, and CIDR prefix arithmetic.                                  *)
(***************************************************************************)
OfType(type) == {i \in DOMAIN children : children[i].type = type}

(* The attributes whose token is the identifier of the resource itself. *)
IdAttributes(type) ==
    CASE type = "Vpc" -> {"vpcId"}
      [] type = "Subnet" -> {"subnetId"}
      [] type = "CfnRouteTable" -> {"attrRouteTableId", "ref"}
      [] type = "CfnInternetGateway" -> {"attrInternetGatewayId", "ref"}
      [] type = "Instance" -> {"instanceId"}
      [] type = "CfnEIP" -> {"attrAllocationId"}
      [] type = "CfnVPCPeeringConnection" -> {"attrId", "ref"}
      [] type = "VpnGateway" -> {"gatewayId"}
      [] OTHER -> {"ref"}

(* The construct of the scope a value identifies, "" when it is none. *)
Target(tok) ==
    IF /\ Len(tok) = 2
       /\ tok[1] \in DOMAIN children
       /\ tok[2] \in IdAttributes(children[tok[1]].type)
    THEN tok[1]
    ELSE ""

(* The statements of one kind, over every constructor of the repository. *)
Declared(kind) ==
    UNION {{Program(v)[k] : k \in {j \in 1..Len(Program(v)) : Program(v)[j].kind = kind}} :
              v \in Versions}

(* How many leading bits of octet i a prefix of length len fixes. *)
PrefixBits(len, i) ==
    IF len >= 8 * i THEN 8
    ELSE IF len <= 8 * (i - 1) THEN 0
    ELSE len - 8 * (i - 1)

OctetPrefix(o, bits) == o \div (2 ^ (8 - bits))

(* Every address of block inner is an address of block outer. *)
CidrContains(outer, inner) ==
    /\ outer.family = inner.family
    /\ outer.len <= inner.len
    /\ \A i \in 1..4 :
          OctetPrefix(inner.octets[i], PrefixBits(outer.len, i))
              = OctetPrefix(outer.octets[i], PrefixBits(outer.len, i))

CidrOverlap(a, b) == CidrContains(a, b) \/ CidrContains(b, a)

(* The rule admits TCP traffic to the port. *)
AdmitsTcp(rule, port) ==
    \/ rule.port.protocol = "-1"
    \/ /\ rule.port.protocol = "tcp"
       /\ rule.port.fromPort <= port
       /\ port <= rule.port.toPort

GroupsNamed(name) ==
    {g \in OfType("SecurityGroup") : children[g].props.securityGroupName = name}

InstancesNamed(name) ==
    {i \in OfType("Instance") : children[i].props.instanceName = name}

VpcsNamed(name) == {v \in OfType("Vpc") : children[v].props.vpcName = name}

Rules(g) ==
    {[peer |-> children[g].ingress[k].peer, port |-> children[g].ingress[k].port] :
        k \in 1..Len(children[g].ingress)}

(* The routes of the route tables the subnet is associated with. *)
RoutesOfSubnet(s) ==
    {r \in OfType("CfnRoute") :
        \E a \in OfType("CfnSubnetRouteTableAssociation") :
            /\ Target(children[a].links.subnetId) = s
            /\ Target(children[a].links.routeTableId) # ""
            /\ Target(children[a].links.routeTableId)
                 = Target(children[r].links.routeTableId)}

(* The Elastic IPs allocated to or associated with the instance. *)
EipsOf(i) ==
    {e \in OfType("CfnEIP") :
        \/ Target(children[e].links.instanceId) = i
        \/ \E a \in OfType("CfnEIPAssociation") :
              /\ Target(children[a].links.allocationId) = e
              /\ Target(children[a].links.instanceId) = i}

(***************************************************************************)
(* C1.  MySQL access to database-sg is allowed from the public subnet      *)
(* only: every ingress rule of the group that admits TCP 3306 has a source *)
(* block inside 10.1.254.0/24, and 10.1.254.0/24 is the CIDR block of the  *)
(* public subnet.                                                          *)
(***************************************************************************)
C1_MySqlFromPublicSubnetOnly ==
    /\ \A g \in GroupsNamed("database-sg") :
          \A k \in 1..Len(children[g].ingress) :
              AdmitsTcp(children[g].ingress[k], 3306)
                  => CidrContains(Cidr(10, 1, 254, 0, 24), children[g].ingress[k].peer)
    /\ "PublicSubnet" \in DOMAIN children
          => children["PublicSubnet"].props.cidrBlock = Cidr(10, 1, 254, 0, 24)

C1_Witness ==
    /\ "PublicSubnet" \in DOMAIN children
    /\ \E g \in GroupsNamed("database-sg") :
          \E k \in 1..Len(children[g].ingress) : AdmitsTcp(children[g].ingress[k], 3306)

(***************************************************************************)
(* C2.  In every version of the stack the database instance has no         *)
(* Elastic IP allocated to it or associated with it, and no route of the   *)
(* route table associated with the database subnet targets an internet     *)
(* gateway.                                                                *)
(***************************************************************************)
C2_DatabaseNotPublic ==
    version \in StackVersions =>
        /\ \A d \in InstancesNamed("database-ec2-instance") : EipsOf(d) = {}
        /\ \A r \in RoutesOfSubnet("DatabaseSubnet") :
              Target(children[r].links.gatewayId) \notin OfType("CfnInternetGateway")

C2_Witness ==
    /\ Done
    /\ InstancesNamed("database-ec2-instance") # {}
    /\ OfType("CfnInternetGateway") # {}
    /\ \E r \in RoutesOfSubnet("DatabaseSubnet") :
          children[r].props.destinationCidrBlock = Cidr(0, 0, 0, 0, 0)

(***************************************************************************)
(* C3.  web-pub-sg admits SSH (TCP 22) from 24.96.0.0/16 only and TCP 80   *)
(* from any IPv4 and any IPv6 address: it never holds another rule, and    *)
(* when the constructor ends it holds exactly these three.                 *)
(***************************************************************************)
PublicIngressExpected ==
    {[peer |-> Cidr(24, 96, 0, 0, 16), port |-> PortTcp(22)],
     [peer |-> Cidr(0, 0, 0, 0, 0), port |-> PortTcp(80)],
     [peer |-> [family |-> "ipv6", octets |-> <<0, 0, 0, 0>>, len |-> 0],
      port |-> PortTcp(80)]}

C3_PublicIngressExactlyThree ==
    \A g \in GroupsNamed("web-pub-sg") :
        /\ Rules(g) \subseteq PublicIngressExpected
        /\ Done => /\ Rules(g) = PublicIngressExpected
                   /\ Len(children[g].ingress) = 3

C3_Witness == Done /\ GroupsNamed("web-pub-sg") # {}

(***************************************************************************)
(* C4.  When a stack constructor ends, the public subnet is associated     *)
(* with a route table holding a 0.0.0.0/0 route to the public internet     *)
(* gateway, and that gateway is attached to web-vpc, the VPC of the route  *)
(* table and of the subnet.                                                *)
(***************************************************************************)
C4_PublicInternetAccess ==
    (Done /\ version \in StackVersions) =>
        \E v \in VpcsNamed("web-vpc") :
        \E r \in RoutesOfSubnet("PublicSubnet") :
        \E att \in OfType("CfnVPCGatewayAttachment") :
            /\ children[r].props.destinationCidrBlock = Cidr(0, 0, 0, 0, 0)
            /\ Target(children[r].links.gatewayId) = "PublicInternetGateway"
            /\ Target(children[att].links.internetGatewayId) = "PublicInternetGateway"
            /\ Target(children[att].links.vpcId) = v
            /\ Target(children[Target(children[r].links.routeTableId)].links.vpcId) = v
            /\ Target(children["PublicSubnet"].links.vpcId) = v

C4_Witness ==
    /\ Done
    /\ version \in StackVersions
    /\ RoutesOfSubnet("PublicSubnet") # {}

(***************************************************************************)
(* C5.  A peering connection is created from web-vpc to shared-vpc, and    *)
(* the public route table's route to 10.2.2.0/24 and the shared route      *)
(* table's route to 10.1.254.0/24 both target that peering connection.     *)
(***************************************************************************)
PeeringRoutes ==
    {r \in OfType("CfnRoute") :
        \/ /\ Target(children[r].links.routeTableId) = "PublicRouteTable"
           /\ children[r].props.destinationCidrBlock = Cidr(10, 2, 2, 0, 24)
        \/ /\ Target(children[r].links.routeTableId) = "SharedRouteTable"
           /\ children[r].props.destinationCidrBlock = Cidr(10, 1, 254, 0, 24)}

C5_PeeringRoutesTargetPeering ==
    (Done /\ version = "part_003") =>
        \E p \in OfType("CfnVPCPeeringConnection") :
            /\ Target(children[p].links.vpcId) \in VpcsNamed("web-vpc")
            /\ Target(children[p].links.peerVpcId) \in VpcsNamed("shared-vpc")
            /\ Cardinality(PeeringRoutes) = 2
            /\ \A r \in PeeringRoutes :
                  Target(children[r].links.vpcPeeringConnectionId) = p

(***************************************************************************)
(* C6.  The CIDR blocks of the VPCs declared in the repository (web-vpc    *)
(* 10.1.0.0/16, shared-vpc 10.2.0.0/16, transit-vpc 10.3.0.0/16) are       *)
(* pairwise disjoint: a VPC of the scope overlaps no other declared VPC.   *)
(***************************************************************************)
VpcCidrExpected ==
    {<<"web-vpc", Cidr(10, 1, 0, 0, 16)>>,
     <<"shared-vpc", Cidr(10, 2, 0, 0, 16)>>,
     <<"transit-vpc", Cidr(10, 3, 0, 0, 16)>>}

C6_VpcCidrsDisjoint ==
    \A v \in OfType("Vpc") :
        /\ <<children[v].props.vpcName, children[v].props.cidr>> \in VpcCidrExpected
        /\ \A d \in Declared("Vpc") :
              d.id # v => ~CidrOverlap(children[v].props.cidr, d.props.cidr)

C6_Witness ==
    /\ Cardinality(OfType("Vpc")) = 2
    /\ OfType("CfnVPCPeeringConnection") # {}

(***************************************************************************)
(* C7.  Exactly one Elastic IP is created for the public instance:         *)
(* public-elastic-ip, which its association links to public-ec2-instance   *)
(* and to no other instance.                                               *)
(***************************************************************************)
C7_OnePublicElasticIp ==
    \A i \in InstancesNamed("public-ec2-instance") :
        /\ EipsOf(i) \subseteq {"public-elastic-ip"}
        /\ \A a \in OfType("CfnEIPAssociation") :
              Target(children[a].links.allocationId) = "public-elastic-ip"
                  => Target(children[a].links.instanceId) = i
        /\ Done =>
              /\ EipsOf(i) = {"public-elastic-ip"}
              /\ \E a \in OfType("CfnEIPAssociation") :
                    /\ Target(children[a].links.allocationId) = "public-elastic-ip"
                    /\ Target(children[a].links.instanceId) = i

C7_Witness ==
    /\ Done
    /\ InstancesNamed("public-ec2-instance") # {}
    /\ Cardinality(OfType("CfnEIP")) = 2

(***************************************************************************)
(* C8.  Every declared subnet is in the availability zone of the public    *)
(* subnet, eu-west-1a, and no two instances sit in subnets of different    *)
(* availability zones.                                                     *)
(***************************************************************************)
ZonesOf(i) ==
    {children[children[i].props.subnets[k]].props.availabilityZone :
        k \in 1..Len(children[i].props.subnets)}

C8_OneAvailabilityZone ==
    /\ \A s \in OfType("Subnet") :
          /\ children[s].props.availabilityZone = "eu-west-1a"
          /\ \A d \in Declared("Subnet") :
                d.props.availabilityZone = children[s].props.availabilityZone
    /\ \A i, j \in OfType("Instance") : ZonesOf(i) = ZonesOf(j)

C8_Witness ==
    /\ Cardinality(OfType("Subnet")) = 3
    /\ Cardinality(OfType("Instance")) = 3

(***************************************************************************)
(* C9.  Every subnet's CIDR block lies inside the CIDR block of the VPC    *)
(* it is created in, and two subnets of one VPC have disjoint blocks       *)
(* (10.1.254.0/24 in 10.1.0.0/16; 10.2.2.0/24 and 10.2.254.0/24 in         *)
(* 10.2.0.0/16; 10.3.0.0/24 in 10.3.0.0/16).                               *)
(***************************************************************************)
SubnetCidrExpected ==
    {<<Cidr(10, 1, 254, 0, 24), Cidr(10, 1, 0, 0, 16)>>,
     <<Cidr(10, 2, 2, 0, 24), Cidr(10, 2, 0, 0, 16)>>,
     <<Cidr(10, 2, 254, 0, 24), Cidr(10, 2, 0, 0, 16)>>,
     <<Cidr(10, 3, 0, 0, 24), Cidr(10, 3, 0, 0, 16)>>}

C9_SubnetsInsideVpcAndDisjoint ==
    \A s \in OfType("Subnet") :
        /\ Target(children[s].links.vpcId) \in OfType("Vpc")
        /\ CidrContains(children[Target(children[s].links.vpcId)].props.cidr,
                        children[s].props.cidrBlock)
        /\ <<children[s].props.cidrBlock,
             children[Target(children[s].links.vpcId)].props.cidr>> \in SubnetCidrExpected
        /\ \A t \in OfType("Subnet") :
              (t # s /\ Target(children[t].links.vpcId) = Target(children[s].links.vpcId))
                  => ~CidrOverlap(children[s].props.cidrBlock, children[t].props.cidrBlock)

C9_Witness ==
    \E s, t \in OfType("Subnet") :
        /\ s # t
        /\ Target(children[s].links.vpcId) = Target(children[t].links.vpcId)

====
